---- MODULE Spec2Model ----
(***************************************************************************)
(* A model of use-form.hook.ts: the root form state held by useForm, the   *)
(* update dispatcher (Update / UpdateOnEvent / UpdateOnPathAndValue), the  *)
(* ramda helpers it relies on (mergeDeepLeft, lensPath/set, path) and the  *)
(* values read by useNestedForm and useFormList at render time, and the    *)
(* update, add, remove and edit handlers of the focused hooks.             *)
(*                                                                         *)
(* JavaScript values are records with a tag t.  Objects and arrays carry   *)
(* an allocation id, so that two values are equal in the model exactly     *)
(* when they are the same reference (Plain erases the ids and gives        *)
(* structural equality).  Strings are sequences of one-character strings,  *)
(* so that key.split('.') and the enumeration of a string's own keys are   *)
(* computed, not assumed.                                                  *)
(***************************************************************************)
EXTENDS Integers, Sequences, FiniteSets, TLC

VARIABLES data, rendered, views, middleware, threw, last,
          queue, source, mounted

vars == <<data, rendered, views, middleware, threw, last,
          queue, source, mounted>>

-----------------------------------------------------------------------------
(* JavaScript values *)

Val(t, id, s, n, b, f, e) ==
    [t |-> t, id |-> id, s |-> s, n |-> n, b |-> b, f |-> f, e |-> e]

Undef == Val("undefined", 0, <<>>, 0, FALSE, <<>>, <<>>)

Null == Val("null", 0, <<>>, 0, FALSE, <<>>, <<>>)

NaN == Val("nan", 0, <<>>, 0, FALSE, <<>>, <<>>)

Str(s) == Val("string", 0, s, 0, FALSE, <<>>, <<>>)

Num(n) == Val("number", 0, <<>>, n, FALSE, <<>>, <<>>)

Bool(b) == Val("boolean", 0, <<>>, 0, b, <<>>, <<>>)

Obj(id, f) == Val("object", id, <<>>, 0, FALSE, f, <<>>)

Arr(id, e) == Val("array", id, <<>>, 0, FALSE, <<>>, e)

\* an instance of the DOM Event class (the nativeEvent of a React ChangeEvent)
EventInstance == Val("Event", 0, <<>>, 0, FALSE, <<>>, <<>>)

\* the result of a call that raised a TypeError instead of returning
Thrown == Val("thrown", 0, <<>>, 0, FALSE, <<>>, <<>>)

IsNil(v) == v.t \in {"undefined", "null"}

\* ramda _isObject: Object.prototype.toString.call(x) === '[object Object]'
IsObject(v) == v.t = "object"

\* JavaScript truthiness of the values the model uses
Truthy(v) ==
    CASE v.t \in {"undefined", "null", "nan"} -> FALSE
      [] v.t = "boolean" -> v.b
      [] v.t = "number" -> v.n # 0
      [] v.t = "string" -> v.s # <<>>
      [] OTHER -> TRUE

-----------------------------------------------------------------------------
(* strings *)

s_foo == <<"f", "o", "o">>
s_bar == <<"b", "a", "r">>
s_baz == <<"b", "a", "z">>
s_qux == <<"q", "u", "x">>
s_lol == <<"l", "o", "l">>
s_num == <<"n", "u", "m">>
s_nest == <<"n", "e", "s", "t">>
s_some == <<"s", "o", "m", "e">>
s_tags == <<"t", "a", "g", "s">>
s_flag == <<"f", "l", "a", "g">>
s_todos == <<"t", "o", "d", "o", "s">>
s_billy == <<"b", "i", "l", "l", "y">>
s_hello == <<"h", "e", "l", "l", "o">>
s_nest_some == s_nest \o <<".">> \o s_some
s_nest_tags == s_nest \o <<".">> \o s_tags
s_empty == <<>>
s_name == <<"n", "a", "m", "e">>
s_type == <<"t", "y", "p", "e">>
s_value == <<"v", "a", "l", "u", "e">>
s_checked == <<"c", "h", "e", "c", "k", "e", "d">>
s_checkbox == <<"c", "h", "e", "c", "k", "b", "o", "x">>
s_text == <<"t", "e", "x", "t">>
s_target == <<"t", "a", "r", "g", "e", "t">>
s_nativeEvent == <<"n", "a", "t", "i", "v", "e", "E", "v", "e", "n", "t">>
s_length == <<"l", "e", "n", "g", "t", "h">>

Digits == <<"0", "1", "2", "3", "4", "5", "6", "7", "8", "9">>

\* String(i) for an array or string index i >= 0
RECURSIVE IndexStr(_)
IndexStr(i) ==
    IF i < 10 THEN <<Digits[i + 1]>>
    ELSE IndexStr(i \div 10) \o <<Digits[(i % 10) + 1]>>

\* String.prototype.split('.')
RECURSIVE Split(_)
Split(str) ==
    IF \E i \in 1..Len(str) : str[i] = "."
    THEN LET i == CHOOSE j \in 1..Len(str) :
                      /\ str[j] = "."
                      /\ \A k \in 1..(j - 1) : str[k] # "."
         IN <<SubSeq(str, 1, i - 1)>> \o Split(SubSeq(str, i + 1, Len(str)))
    ELSE <<str>>

-----------------------------------------------------------------------------
(* property access *)

\* the own enumerable keys a for-in loop visits (filtered by _has)
OwnKeys(v) ==
    CASE v.t = "object" -> DOMAIN v.f
      [] v.t = "array" -> {IndexStr(i - 1) : i \in 1..Len(v.e)}
      [] v.t = "string" -> {IndexStr(i - 1) : i \in 1..Len(v.s)}
      [] OTHER -> {}

\* v[k] for a value v that is neither null nor undefined
GetProp(v, k) ==
    CASE v.t = "object" -> IF k \in DOMAIN v.f THEN v.f[k] ELSE Undef
      [] v.t = "array" ->
            IF k = s_length THEN Num(Len(v.e))
            ELSE IF \E i \in 1..Len(v.e) : IndexStr(i - 1) = k
                 THEN v.e[CHOOSE i \in 1..Len(v.e) : IndexStr(i - 1) = k]
                 ELSE Undef
      [] v.t = "string" ->
            IF k = s_length THEN Num(Len(v.s))
            ELSE IF \E i \in 1..Len(v.s) : IndexStr(i - 1) = k
                 THEN Str(<<v.s[CHOOSE i \in 1..Len(v.s) : IndexStr(i - 1) = k]>>)
                 ELSE Undef
      [] OTHER -> Undef

\* ramda path(keys, obj): undefined as soon as a nil value is met
RECURSIVE Path(_, _)
Path(keys, obj) ==
    IF keys = <<>> THEN obj
    ELSE IF IsNil(obj) THEN Undef
    ELSE Path(Tail(keys), GetProp(obj, Head(keys)))

\* ramda set(lensPath(keys), value, {}): assocPath over an empty object.
\* The keys come from split and are strings, never integers, so every
\* level created is a fresh object.
\* only the first key is written
AssocPathFirstKey(keys, value, id) == Obj(id, Head(keys) :> value)

RECURSIVE AssocPath(_, _, _)
AssocPath(keys, value, id) ==
    IF Len(keys) = 1 THEN Obj(id, Head(keys) :> value)
    ELSE Obj(id, Head(keys) :> AssocPath(Tail(keys), value, id))

-----------------------------------------------------------------------------
(* ramda mergeDeepLeft *)

\* ramda mergeWithKey with the mergeDeepWithKey callback of mergeDeepLeft:
\* the result is a new object (id) holding the own keys of l and then those
\* of r; on a key of both, the merge recurses when both values are plain
\* objects and takes l's value otherwise.
\* a one-level merge: on a key of both, l's value always wins
MergeShallowLeft(l, r, id) ==
    Obj(id, [k \in OwnKeys(l) \cup OwnKeys(r) |->
               IF k \in OwnKeys(l) THEN GetProp(l, k) ELSE GetProp(r, k)])

\* the keys of l are written into r itself (Object.assign on the state)
RECURSIVE MergeDeepInPlace(_, _, _)
MergeDeepInPlace(l, r, id) ==
    Obj(IF r.t = "object" THEN r.id ELSE id,
        [k \in OwnKeys(l) \cup OwnKeys(r) |->
           IF k \in OwnKeys(l)
           THEN IF k \in OwnKeys(r)
                THEN IF IsObject(GetProp(l, k)) /\ IsObject(GetProp(r, k))
                     THEN MergeDeepInPlace(GetProp(l, k), GetProp(r, k), id)
                     ELSE GetProp(l, k)
                ELSE GetProp(l, k)
           ELSE GetProp(r, k)])

\* two arrays under the same key are joined: the elements of r, then those
\* of l
RECURSIVE MergeDeepJoiningArrays(_, _, _)
MergeDeepJoiningArrays(l, r, id) ==
    Obj(id, [k \in OwnKeys(l) \cup OwnKeys(r) |->
               IF k \in OwnKeys(l)
               THEN IF k \in OwnKeys(r)
                    THEN IF IsObject(GetProp(l, k)) /\ IsObject(GetProp(r, k))
                         THEN MergeDeepJoiningArrays(GetProp(l, k), GetProp(r, k), id)
                         ELSE IF GetProp(l, k).t = "array" /\ GetProp(r, k).t = "array"
                         THEN Arr(id, GetProp(r, k).e \o GetProp(l, k).e)
                         ELSE GetProp(l, k)
                    ELSE GetProp(l, k)
               ELSE GetProp(r, k)])

RECURSIVE MergeDeepLeft(_, _, _)
MergeDeepLeft(l, r, id) ==
    Obj(id, [k \in OwnKeys(l) \cup OwnKeys(r) |->
               IF k \in OwnKeys(l)
               THEN IF k \in OwnKeys(r)
                    THEN IF IsObject(GetProp(l, k)) /\ IsObject(GetProp(r, k))
                         THEN MergeDeepLeft(GetProp(l, k), GetProp(r, k), id)
                         ELSE GetProp(l, k)
                    ELSE GetProp(l, k)
               ELSE GetProp(r, k)])

\* Whether mergeWithKey(fn, l, r) raises.  _has(k, r) is
\* Object.prototype.hasOwnProperty.call(r, k), which raises a TypeError on a
\* nil r; it is evaluated once l has an own key.  Releases of ramda that
\* start with "l = l || {}; r = r || {}" never raise: nullSafe says which
\* release is installed.
MergeThrows(l, r, nullSafe) ==
    /\ ~nullSafe
    /\ IsNil(r)
    /\ OwnKeys(l) # {}

-----------------------------------------------------------------------------
(* ids *)

RECURSIVE IdsOf(_)
IdsOf(v) ==
    CASE v.t = "object" ->
            {v.id} \cup UNION {IdsOf(v.f[k]) : k \in DOMAIN v.f}
      [] v.t = "array" ->
            {v.id} \cup UNION {IdsOf(v.e[i]) : i \in 1..Len(v.e)}
      [] OTHER -> {}

\* structural content of a value: the ids erased
RECURSIVE Plain(_)
Plain(v) ==
    CASE v.t = "object" -> Obj(0, [k \in DOMAIN v.f |-> Plain(v.f[k])])
      [] v.t = "array" -> Arr(0, [i \in 1..Len(v.e) |-> Plain(v.e[i])])
      [] OTHER -> v

\* a literal written by the caller: every object and array of it is new
RECURSIVE Literal(_, _)
Literal(v, id) ==
    CASE v.t = "object" -> Obj(id, [k \in DOMAIN v.f |-> Literal(v.f[k], id)])
      [] v.t = "array" -> Arr(id, [i \in 1..Len(v.e) |-> Literal(v.e[i], id)])
      [] OTHER -> v

\* ids renumbered 1..n in allocation order over the ids U still referenced
RECURSIVE Compact(_, _)
Compact(v, U) ==
    CASE v.t = "object" ->
            Obj(Cardinality({u \in U : u <= v.id}),
                [k \in DOMAIN v.f |-> Compact(v.f[k], U)])
      [] v.t = "array" ->
            Arr(Cardinality({u \in U : u <= v.id}),
                [i \in 1..Len(v.e) |-> Compact(v.e[i], U)])
      [] OTHER -> v

SetMax(S) == IF S = {} THEN 0 ELSE CHOOSE m \in S : \A x \in S : x <= m

-----------------------------------------------------------------------------
(* the middleware functions *)

\* JavaScript x + 1 (x += 1 of the counting middleware)
PlusOne(v) ==
    CASE v.t = "number" -> Num(v.n + 1)
      [] v.t = "undefined" -> NaN
      [] v.t = "nan" -> NaN
      [] v.t = "null" -> Num(1)
      [] v.t = "boolean" -> Num(IF v.b THEN 2 ELSE 1)
      [] v.t = "string" -> Str(v.s \o <<"1">>)

\* middlewareFn(v).  "identity" is ramda's identity, the default; "counter"
\* is the middleware of the test 'applies the middleware on every update':
\* it assigns baz and num on its argument and returns that same object, and
\* raises a TypeError on anything that cannot take a property.
MiddlewareFn(mw, v) ==
    CASE mw = "identity" -> v
      [] mw = "counter" /\ v.t = "object" ->
            Obj(v.id, [k \in DOMAIN v.f \cup {s_baz, s_num} |->
                         IF k = s_baz THEN Str(s_qux)
                         ELSE IF k = s_num THEN PlusOne(GetProp(v, s_num))
                         ELSE v.f[k]])
      [] mw = "counter" /\ v.t \in {"undefined", "null", "string", "number",
                                    "boolean", "nan"} -> Thrown

-----------------------------------------------------------------------------
(* useForm.handleUpdate *)

\* What handleUpdate(delta, replace) does to the state `current`:
\*   data     the state afterwards (unchanged when the updater raised),
\*   nextData the tree computed before the middleware ran (Undef if none),
\*   branch   "clear", "replace" or "merge",
\*   mwRan    how many times middlewareFn was invoked,
\*   threw    whether the updater raised.
\* id is the id of the object mergeDeepLeft allocates.
\* the replace branch publishes the delta without running the middleware
handleUpdateReplaceRaw(current, delta, replace, mw, nullSafe, id) ==
    IF delta.t = "null" /\ Truthy(replace)
    THEN [data |-> Null, nextData |-> Undef, branch |-> "clear",
          mwRan |-> 0, threw |-> FALSE]
    ELSE IF Truthy(replace)
    THEN [data |-> delta, nextData |-> delta, branch |-> "replace",
          mwRan |-> 0, threw |-> FALSE]
    ELSE IF MergeThrows(delta, current, nullSafe)
    THEN [data |-> current, nextData |-> Undef, branch |-> "merge",
          mwRan |-> 0, threw |-> TRUE]
    ELSE LET nextData == MergeDeepLeft(delta, current, id)
             r == MiddlewareFn(mw, nextData)
         IN [data |-> IF r = Thrown THEN current ELSE r,
             nextData |-> nextData, branch |-> "merge",
             mwRan |-> 1, threw |-> r = Thrown]

\* the replace flag is ignored: every delta but the clear is merged
handleUpdateIgnoringReplace(current, delta, replace, mw, nullSafe, id) ==
    IF delta.t = "null" /\ Truthy(replace)
    THEN [data |-> Null, nextData |-> Undef, branch |-> "clear",
          mwRan |-> 0, threw |-> FALSE]
    ELSE IF MergeThrows(delta, current, nullSafe)
    THEN [data |-> current, nextData |-> Undef, branch |-> "merge",
          mwRan |-> 0, threw |-> TRUE]
    ELSE LET nextData == MergeDeepLeft(delta, current, id)
             r == MiddlewareFn(mw, nextData)
         IN [data |-> IF r = Thrown THEN current ELSE r,
             nextData |-> nextData,
             branch |-> IF Truthy(replace) THEN "replace" ELSE "merge",
             mwRan |-> 1, threw |-> r = Thrown]

handleUpdate(current, delta, replace, mw, nullSafe, id) ==
    IF delta.t = "null" /\ Truthy(replace)
    THEN [data |-> Null, nextData |-> Undef, branch |-> "clear",
          mwRan |-> 0, threw |-> FALSE]
    ELSE IF Truthy(replace)
    THEN LET r == MiddlewareFn(mw, delta)
         IN [data |-> IF r = Thrown THEN current ELSE r,
             nextData |-> delta, branch |-> "replace",
             mwRan |-> 1, threw |-> r = Thrown]
    ELSE IF MergeThrows(delta, current, nullSafe)
    THEN [data |-> current, nextData |-> Undef, branch |-> "merge",
          mwRan |-> 0, threw |-> TRUE]
    ELSE LET nextData == MergeDeepLeft(delta, current, id)
             r == MiddlewareFn(mw, nextData)
         IN [data |-> IF r = Thrown THEN current ELSE r,
             nextData |-> nextData, branch |-> "merge",
             mwRan |-> 1, threw |-> r = Thrown]

-----------------------------------------------------------------------------
(* the dispatcher *)

\* the replace flag is not passed on
UpdateOnPathAndValueNoFlag(key, value, replace, id) ==
    [shape |-> "pathvalue",
     delta |-> AssocPath(Split(key.s), value, id),
     replace |-> Undef]

\* UpdateOnPathAndValue: the arguments it passes to handleUpdate
UpdateOnPathAndValue(key, value, replace, id) ==
    [shape |-> "pathvalue",
     delta |-> AssocPath(Split(key.s), value, id),
     replace |-> replace]

\* target.value is taken whatever the type of the input
UpdateOnEventValueOnly(event, id) ==
    LET target == GetProp(event, s_target)
    IN [UpdateOnPathAndValue(GetProp(target, s_name),
                             GetProp(target, s_value), Undef, id)
          EXCEPT !.shape = "event"]

\* UpdateOnEvent: the value is target.checked for a checkbox and
\* target.value otherwise; no replace flag is passed on
UpdateOnEvent(event, id) ==
    LET target == GetProp(event, s_target)
        value == IF GetProp(target, s_type) = Str(s_checkbox)
                 THEN GetProp(target, s_checked)
                 ELSE GetProp(target, s_value)
    IN [UpdateOnPathAndValue(GetProp(target, s_name), value, Undef, id)
          EXCEPT !.shape = "event"]

\* event?.nativeEvent instanceof Event
IsNativeChange(v) ==
    /\ ~IsNil(v)
    /\ GetProp(v, s_nativeEvent).t = "Event"

\* every string first argument is taken as a path
UpdateStringIsPath(eventOrDeltaOrPath, replaceOrValue, replace, id) ==
    IF IsNativeChange(eventOrDeltaOrPath)
    THEN UpdateOnEvent(eventOrDeltaOrPath, id)
    ELSE IF eventOrDeltaOrPath.t = "string"
    THEN UpdateOnPathAndValue(eventOrDeltaOrPath, replaceOrValue, replace, id)
    ELSE [shape |-> "delta",
          delta |-> eventOrDeltaOrPath,
          replace |-> replaceOrValue]

\* Update(handleUpdate, eventOrDeltaOrPath, replaceOrValue, replace): the
\* call shape chosen and the arguments handleUpdate is called with
Update(eventOrDeltaOrPath, replaceOrValue, replace, id) ==
    IF IsNativeChange(eventOrDeltaOrPath)
    THEN UpdateOnEvent(eventOrDeltaOrPath, id)
    ELSE IF eventOrDeltaOrPath.t = "string" /\ replaceOrValue.t # "undefined"
    THEN UpdateOnPathAndValue(eventOrDeltaOrPath, replaceOrValue, replace, id)
    ELSE [shape |-> "delta",
          delta |-> eventOrDeltaOrPath,
          replace |-> replaceOrValue]

-----------------------------------------------------------------------------
(* useNestedForm and useFormList: the value read at render time *)

\* the stored mapping is copied instead of returned
useNestedFormValueCopy(key, d, id) ==
    LET v == Path(Split(key), d)
    IN IF IsNil(v) THEN Obj(id, <<>>)
       ELSE IF v.t = "object" THEN Obj(id, v.f) ELSE v

\* useNestedForm: path(key.split('.'), data) ?? {}
useNestedFormValue(key, d, id) ==
    LET v == Path(Split(key), d)
    IN IF IsNil(v) THEN Obj(id, <<>>) ELSE v

\* useFormList: path(key.split('.'), data) ?? []
useFormListValue(key, d, id) ==
    LET v == Path(Split(key), d)
    IN IF IsNil(v) THEN Arr(id, <<>>) ELSE v

\* the focused hooks the component mounts next to useForm
Hooks ==
    << [kind |-> "nested", key |-> s_nest],
       [kind |-> "nested", key |-> s_nest_some],
       [kind |-> "list", key |-> s_nest_tags],
       [kind |-> "list", key |-> s_todos] >>

\* one render of the component: every hook recomputes its memoized value
\* from the state d; base is the largest id in use
RenderViews(d, base) ==
    [i \in 1..Len(Hooks) |->
        IF Hooks[i].kind = "nested"
        THEN useNestedFormValue(Hooks[i].key, d, base + i)
        ELSE useFormListValue(Hooks[i].key, d, base + i)]

-----------------------------------------------------------------------------
(* useNestedForm: the update handler *)

\* the caller's replace flag is passed on to the parent
useNestedFormForwardsReplace(key, delta, replace) ==
    <<Str(key), delta, replace>>

\* useNestedForm.handleUpdate(delta): the arguments of its call of the
\* parent's setter, onChange(key, delta, false).  The handler declares no
\* second parameter: the flag Update hands it is dropped.
useNestedFormHandleUpdate(key, delta, replace) ==
    <<Str(key), delta, Bool(FALSE)>>

\* handleChange of the handle reached from the root through the hooks
\* useNestedForm(..., chain[1]), useNestedForm(..., chain[2]), ...: each
\* level runs Update on its arguments and calls the setter of the level
\* above.  The result is the call shape chosen at the root and the
\* arguments of the root's handleUpdate.  id, id + 1, ... are the ids of the
\* objects the levels allocate.
RECURSIVE FocusedChange(_, _, _, _, _)
FocusedChange(chain, eventOrDeltaOrPath, replaceOrValue, replace, id) ==
    LET call == Update(eventOrDeltaOrPath, replaceOrValue, replace, id)
    IN IF chain = <<>> THEN call
       ELSE LET up == useNestedFormHandleUpdate(chain[Len(chain)], call.delta,
                                                call.replace)
            IN FocusedChange(SubSeq(chain, 1, Len(chain) - 1),
                             up[1], up[2], up[3], id + 1)

\* the value read by the handle reached through the hooks of chain: every
\* level applies path(key.split('.'), data) ?? {} to the value of the level
\* above
RECURSIVE FocusedValue(_, _, _)
FocusedValue(chain, d, id) ==
    IF chain = <<>> THEN d
    ELSE useNestedFormValue(chain[Len(chain)],
                            FocusedValue(SubSeq(chain, 1, Len(chain) - 1), d, id),
                            id + Len(chain))

-----------------------------------------------------------------------------
(* useFormList: the handlers *)

s_id == <<"i", "d">>
s_self == <<"s", "e", "l", "f">>

\* identifier(item): (i) => i for a list of scalars, (i) => i.id for a list
\* of mappings
Identifier(ident, item) ==
    IF ident = s_self THEN item
    ELSE IF IsNil(item) THEN Thrown ELSE GetProp(item, s_id)

\* a === b: scalars by value (NaN is equal to nothing), objects and arrays
\* by reference
StrictEquals(a, b) == a = b /\ a.t # "nan"

\* draft.findIndex((i) => identifier(i) === identifier(item)): the first
\* matching position, 0 for -1
FindIndex(elems, ident, item) ==
    LET hits == {i \in 1..Len(elems) :
                    StrictEquals(Identifier(ident, elems[i]),
                                 Identifier(ident, item))}
    IN IF hits = {} THEN 0 ELSE CHOOSE i \in hits : \A j \in hits : i <= j

\* immer produce(base, recipe): the base itself when the recipe left every
\* element as it was, a new array otherwise
Produce(currentValue, elems, id) ==
    IF elems = currentValue.e THEN currentValue ELSE Arr(id, elems)

\* an item equal to an element of the list is not added again
handleAddItemUnlessPresent(currentValue, item, id) ==
    IF \E i \in 1..Len(currentValue.e) : currentValue.e[i] = item
    THEN currentValue
    ELSE Produce(currentValue, Append(currentValue.e, item), id)

\* handleAddItem: draft.push(item)
handleAddItem(currentValue, item, id) ==
    Produce(currentValue, Append(currentValue.e, item), id)

\* every element with the identity key of item is removed
handleRemoveEveryMatch(currentValue, ident, item, id) ==
    Produce(currentValue,
            SelectSeq(currentValue.e,
                      LAMBDA x : ~StrictEquals(Identifier(ident, x),
                                               Identifier(ident, item))),
            id)

\* handleRemoveItem: findIndex, then draft.splice(index, 1)
handleRemoveItem(currentValue, ident, item, id) ==
    LET index == FindIndex(currentValue.e, ident, item)
    IN IF index = 0 THEN currentValue
       ELSE Produce(currentValue,
                    SubSeq(currentValue.e, 1, index - 1)
                       \o SubSeq(currentValue.e, index + 1, Len(currentValue.e)),
                    id)

\* the matched element always becomes delta
handleUpdateItemAlwaysReplaces(currentValue, ident, item, delta, replace, id) ==
    LET index == FindIndex(currentValue.e, ident, item)
    IN IF index = 0 THEN currentValue
       ELSE Produce(currentValue, [currentValue.e EXCEPT ![index] = delta], id)

\* handleUpdateItem: the matched element becomes delta when item is a
\* string or replace is truthy, and mergeDeepLeft(delta, element) otherwise
handleUpdateItem(currentValue, ident, item, delta, replace, id) ==
    LET index == FindIndex(currentValue.e, ident, item)
    IN IF index = 0 THEN currentValue
       ELSE IF item.t = "string" \/ Truthy(replace)
       THEN Produce(currentValue, [currentValue.e EXCEPT ![index] = delta], id)
       ELSE Produce(currentValue,
                    [currentValue.e EXCEPT
                        ![index] = MergeDeepLeft(delta, currentValue.e[index],
                                                 id + 1)],
                    id)

\* handleChange of useFormList (onEdit): Update chooses the arguments of
\* handleUpdateItem.bind(undefined, item)
useFormListHandleChange(currentValue, ident, item, eventOrDeltaOrPath, replaceOrValue, replace, id) ==
    LET call == Update(eventOrDeltaOrPath, replaceOrValue, replace, id)
    IN [shape |-> call.shape, delta |-> call.delta, replace |-> call.replace,
        array |-> handleUpdateItem(currentValue, ident, item, call.delta,
                                   call.replace, id + 1)]

-----------------------------------------------------------------------------
(* bounds and inputs *)

\* largest value of num the counting middleware may reach
MaxNum == 3

EmptyObj == Obj(0, <<>>)

InitialValues ==
    { EmptyObj,
      Obj(0, s_num :> Num(0)),
      Obj(0, (s_foo :> Str(s_baz))
             @@ (s_nest :> Obj(0, (s_some :> Str(s_billy))
                                  @@ (s_tags :> Arr(0, <<Str(s_foo)>>))))) }

Middlewares == {"identity", "counter"}

\* raw delta objects
Deltas ==
    { Obj(0, s_foo :> Str(s_bar)),
      Obj(0, s_baz :> Str(s_lol)),
      Obj(0, s_nest :> Obj(0, s_tags :> Arr(0, <<Str(s_hello)>>))),
      EmptyObj }

\* React change events: { nativeEvent, target: { name, type, value, checked } }
ChangeEvent(name, type, value, checked) ==
    Obj(0, (s_nativeEvent :> EventInstance)
           @@ (s_target :> Obj(0, (s_name :> Str(name))
                                  @@ (s_type :> Str(type))
                                  @@ (s_value :> value)
                                  @@ (s_checked :> checked))))

TextEvent == ChangeEvent(s_foo, s_text, Str(s_bar), Bool(FALSE))

CheckboxEvent == ChangeEvent(s_nest_some, s_checkbox, Str(<<"o", "n">>), Bool(TRUE))

\* the calls onChange(eventOrDeltaOrPath, replaceOrValue, replace) explored
Calls ==
    {<<d, r, Undef>> : d \in Deltas \cup {Null, Undef}, r \in {Undef, Bool(TRUE)}}
    \cup {<<Null, Bool(FALSE), Undef>>}
    \cup {<<Str(s_foo), Str(s_bar), r>> : r \in {Undef, Bool(TRUE)}}
    \cup {<<Str(s_nest_some), Str(s_bar), r>> : r \in {Undef, Bool(TRUE)}}
    \cup {<<Str(s_nest), Obj(0, s_some :> Str(s_hello)), r>> : r \in {Undef, Bool(TRUE)}}
    \cup {<<Str(s_nest), Str(s_bar), r>> : r \in {Undef, Bool(FALSE)}}
    \cup {<<Str(s_foo), Undef, Undef>>}
    \cup {<<TextEvent, r, r>> : r \in {Undef, Bool(TRUE)}}
    \cup {<<CheckboxEvent, Undef, Undef>>}

-----------------------------------------------------------------------------
(* state *)

\* last: the last call of the setter, kept until the next render.  Its
\* values are structural (ids erased):
\*   a1, a2, a3  the arguments of the call,
\*   shape       the call shape the dispatcher chose,
\*   delta, replace  the arguments handleUpdate was called with,
\*   nextData    the tree computed before the middleware ran,
\*   branch, mwRan   as returned by handleUpdate.
NoCall ==
    [op |-> "none", a1 |-> Undef, a2 |-> Undef, a3 |-> Undef,
     shape |-> "none", delta |-> Undef, replace |-> Undef,
     nextData |-> Undef, branch |-> "none", mwRan |-> 0]

\* the ids referenced by the values d, r and the sequence of values v
StateIds(d, r, v) ==
    IdsOf(d) \cup IdsOf(r) \cup UNION {IdsOf(v[i]) : i \in 1..Len(v)}

NumOf(d) ==
    IF d.t = "object" /\ GetProp(d, s_num).t = "number"
    THEN GetProp(d, s_num).n
    ELSE 0

\* useForm(initialValue, middlewareFn): useState(middlewareFn(initialValue)),
\* then the first render
Init ==
    \E initialValue \in InitialValues, mw \in Middlewares :
        LET d == MiddlewareFn(mw, Literal(initialValue, 1))
            v == RenderViews(d, 1)
            U == StateIds(d, d, v)
        IN /\ data = Compact(d, U)
           /\ rendered = data
           /\ views = [i \in 1..Len(v) |-> Compact(v[i], U)]
           /\ last = NoCall
           /\ middleware = mw
           /\ threw = FALSE
           /\ queue = <<>>
           /\ source = Undef
           /\ mounted = 0

\* handleChange of useForm: one call of the setter returned by useForm,
\* issued on the rendered component
handleChange(a1, a2, a3, nullSafe) ==
    /\ ~threw
    /\ rendered = data
    /\ LET base == SetMax(StateIds(data, rendered, views))
           call == Update(Literal(a1, base + 1), Literal(a2, base + 1), a3,
                          base + 2)
           res == handleUpdate(data, call.delta, call.replace, middleware,
                               nullSafe, base + 3)
           U == StateIds(res.data, rendered, views)
       IN /\ NumOf(res.data) <= MaxNum
          /\ data' = Compact(res.data, U)
          /\ rendered' = Compact(rendered, U)
          /\ views' = [i \in 1..Len(views) |-> Compact(views[i], U)]
          /\ last' = [op |-> "update", a1 |-> a1, a2 |-> a2, a3 |-> a3,
                      shape |-> call.shape, delta |-> Plain(call.delta),
                      replace |-> call.replace,
                      nextData |-> Plain(res.nextData),
                      branch |-> res.branch, mwRan |-> res.mwRan]
          /\ threw' = res.threw
          /\ UNCHANGED <<middleware, queue, source, mounted>>

\* React renders the component again once the state is another reference
Render ==
    /\ ~threw
    /\ rendered # data
    /\ LET v == RenderViews(data, SetMax(IdsOf(data) \cup IdsOf(source)))
           U == StateIds(data, data, v) \cup IdsOf(source)
       IN /\ data' = Compact(data, U)
          /\ rendered' = data'
          /\ views' = [i \in 1..Len(v) |-> Compact(v[i], U)]
          /\ source' = Compact(source, U)
          /\ last' = NoCall
          /\ UNCHANGED <<middleware, threw, queue, mounted>>

Next ==
    \/ \E c \in Calls, nullSafe \in BOOLEAN :
          handleChange(c[1], c[2], c[3], nullSafe)
    \/ Render

Spec == Init /\ [][Next]_vars

-----------------------------------------------------------------------------
(* a component with one focused hook next to useForm *)

\* largest length of a list the list handlers may build
MaxLen == 3

Todo(id, name) == Obj(0, (s_id :> Num(id)) @@ (s_name :> Str(name)))

\* the object the test passes to setData(originalObject, true)
OriginalObject ==
    Obj(0, s_nest :> Obj(0, (s_some :> Str(s_billy))
                            @@ (s_tags :> Arr(0, <<Str(s_foo)>>))))

\* the initial values of the component that mounts the focused hook h: no
\* value, or a tree that holds the value the hook focuses on
FocusInitialValues(h) ==
    { EmptyObj,
      IF h.ident = s_id
      THEN Obj(0, s_todos :> Arr(0, <<Todo(1, s_foo), Todo(2, s_bar)>>))
      ELSE Obj(0, (s_foo :> Str(s_baz))
                  @@ (s_nest :> Obj(0, (s_some :> Str(s_billy))
                                       @@ (s_tags :> Arr(0, <<Str(s_foo), Num(1)>>))))) }

\* the focused hook the component mounts: a useNestedForm reached through
\* chain, or the useFormList whose value is views[view]
FocusHandles ==
    << [kind |-> "nested", chain |-> <<s_nest>>, view |-> 0, ident |-> s_self],
       [kind |-> "nested", chain |-> <<s_nest, s_some>>, view |-> 0, ident |-> s_self],
       [kind |-> "nested", chain |-> <<s_nest_some>>, view |-> 0, ident |-> s_self],
       [kind |-> "list", chain |-> <<>>, view |-> 3, ident |-> s_self],
       [kind |-> "list", chain |-> <<>>, view |-> 4, ident |-> s_id] >>

\* calls of the root setter
RootCalls ==
    { <<Null, Undef, Undef>>,
      <<Undef, Undef, Undef>>,
      <<OriginalObject, Bool(TRUE), Undef>>,
      <<Str(s_nest_some), Str(s_hello), Undef>>,
      <<Obj(0, s_foo :> Str(s_bar)), Undef, Undef>> }

\* the calls of the root setter that are documented to do nothing
NoOpCalls == { <<Null, Undef, Undef>>, <<Undef, Undef, Undef>> }

\* calls of the setter of a useNestedForm
NestedCalls ==
    { <<Obj(0, s_some :> Str(s_hello)), Undef, Undef>>,
      <<Obj(0, s_some :> Str(s_hello)), Bool(TRUE), Undef>>,
      <<EmptyObj, Bool(TRUE), Undef>>,
      <<Null, Undef, Undef>>,
      <<Undef, Undef, Undef>>,
      <<Str(s_some), Str(s_bar), Undef>>,
      <<Str(s_some), Str(s_bar), Bool(TRUE)>>,
      <<TextEvent, Undef, Undef>> }

\* items passed to onAdd, onRemove and onEdit
Items ==
    [self |-> {Str(s_foo), Num(1)},
     id |-> {Todo(1, s_foo), Todo(3, s_baz)}]

ItemsOf(h) == IF h.ident = s_self THEN Items.self ELSE Items.id

\* the calls onEdit(item, a1, a2, a3)
EditCalls ==
    [self |-> { <<Str(s_foo), Str(s_hello), Undef, Undef>>,
                <<Str(s_foo), Str(s_hello), Bool(TRUE), Undef>>,
                <<Num(1), Num(2), Undef, Undef>> },
     id |-> { <<Todo(1, s_foo), Obj(0, s_name :> Str(s_bar)), Undef, Undef>>,
              <<Todo(1, s_foo), Obj(0, s_id :> Num(3)), Bool(TRUE), Undef>>,
              <<Todo(3, s_baz), Obj(0, s_name :> Str(s_bar)), Undef, Undef>>,
              <<Todo(1, s_foo), Str(s_name), Str(s_bar), Undef>> }]

EditCallsOf(h) == IF h.ident = s_self THEN EditCalls.self ELSE EditCalls.id

\* the installed release of ramda decides an outcome only for a nil state
RamdaReleases == IF IsNil(data) THEN BOOLEAN ELSE {TRUE}

\* the largest id in use
Base == SetMax(StateIds(data, rendered, views) \cup IdsOf(source))

\* useForm(initialValue) with the default middleware, and the first render
\* of a component that mounts one of the focused hooks of handles
MountInit(handles) ==
    \E m \in handles :
      \E initialValue \in FocusInitialValues(FocusHandles[m]) :
        LET d == MiddlewareFn("identity", Literal(initialValue, 1))
            v == RenderViews(d, 1)
            U == StateIds(d, d, v)
        IN /\ data = Compact(d, U)
           /\ rendered = data
           /\ views = [i \in 1..Len(v) |-> Compact(v[i], U)]
           /\ last = NoCall
           /\ middleware = "identity"
           /\ threw = FALSE
           /\ queue = <<>>
           /\ source = Undef
           /\ mounted = m

\* a component with a useNestedForm
FocusInit == MountInit({i \in 1..Len(FocusHandles) : FocusHandles[i].kind = "nested"})

\* a component with a useFormList
ListInit == MountInit({i \in 1..Len(FocusHandles) : FocusHandles[i].kind = "list"})

\* The root's handleUpdate runs on the arguments call that the setter chain
\* handed it, and the new state is published.  last records the call:
\*   op, a1, a2, a3, item  the handler called and its arguments,
\*   sub     what Update chose at the focused handle,
\*   array   the array a list handler wrote,
\*   passed  the objects the caller passed, as they are after the call,
\* and, as for the root setter, what the root's Update and handleUpdate did.
Publish(op, a1, a2, a3, item, sub, array, passed, call, newSource, nullSafe) ==
    LET res == handleUpdate(data, call.delta, call.replace, middleware,
                            nullSafe, Base + 8)
        U == StateIds(res.data, rendered, views) \cup IdsOf(newSource)
                \cup UNION {IdsOf(passed[i]) : i \in 1..Len(passed)}
    IN /\ NumOf(res.data) <= MaxNum
       /\ data' = Compact(res.data, U)
       /\ rendered' = Compact(rendered, U)
       /\ views' = [i \in 1..Len(views) |-> Compact(views[i], U)]
       /\ source' = Compact(newSource, U)
       /\ last' = [op |-> op, a1 |-> a1, a2 |-> a2, a3 |-> a3, item |-> item,
                   shape |-> call.shape, delta |-> Plain(call.delta),
                   replace |-> call.replace,
                   nextData |-> Plain(res.nextData),
                   branch |-> res.branch, mwRan |-> res.mwRan,
                   sub |-> [shape |-> sub.shape, delta |-> Plain(sub.delta),
                            replace |-> sub.replace],
                   array |-> Plain(array),
                   passed |-> [i \in 1..Len(passed) |-> Compact(passed[i], U)]]
       /\ threw' = res.threw
       /\ UNCHANGED <<middleware, queue, mounted>>

\* handleChange of useForm, called by the component; source keeps the
\* object the caller passed to a replace
rootChange(a1, a2, a3, nullSafe) ==
    /\ ~threw
    /\ rendered = data
    /\ LET p1 == Literal(a1, Base + 1)
           p2 == Literal(a2, Base + 1)
           call == Update(p1, p2, a3, Base + 7)
       IN Publish("update", a1, a2, a3, Undef, call, Undef, <<p1, p2>>, call,
                  IF call.shape = "delta" /\ Truthy(call.replace)
                     /\ p1.t = "object"
                  THEN p1 ELSE source,
                  nullSafe)

\* handleChange of the mounted useNestedForm
nestedChange(a1, a2, a3, nullSafe) ==
    /\ ~threw
    /\ rendered = data
    /\ FocusHandles[mounted].kind = "nested"
    /\ LET p1 == Literal(a1, Base + 1)
           p2 == Literal(a2, Base + 1)
           sub == Update(p1, p2, a3, Base + 2)
           call == FocusedChange(FocusHandles[mounted].chain, p1, p2, a3,
                                 Base + 2)
       IN Publish("focus", a1, a2, a3, Undef, sub, Undef, <<p1, p2>>, call,
                  source, nullSafe)

\* the handlers of the mounted useFormList write the array they computed
\* from the value read at the last render: onChange(key, updatedArray)
listWrite(op, a1, a2, a3, item, sub, array, passed, nullSafe) ==
    LET key == Hooks[FocusHandles[mounted].view].key
        call == Update(Str(key), array, Undef, Base + 7)
    IN Publish(op, a1, a2, a3, item, sub, array, passed, call, source, nullSafe)

\* onAdd(item)
listAdd(item, nullSafe) ==
    /\ ~threw
    /\ rendered = data
    /\ FocusHandles[mounted].kind = "list"
    /\ LET h == FocusHandles[mounted]
           currentValue == views[h.view]
           p == Literal(item, Base + 1)
       IN /\ Len(currentValue.e) < MaxLen
          /\ listWrite("add", Undef, Undef, Undef, item,
                       [shape |-> "none", delta |-> Undef, replace |-> Undef],
                       handleAddItem(currentValue, p, Base + 5), <<p>>,
                       nullSafe)

\* onRemove(item)
listRemove(item, nullSafe) ==
    /\ ~threw
    /\ rendered = data
    /\ FocusHandles[mounted].kind = "list"
    /\ LET h == FocusHandles[mounted]
           currentValue == views[h.view]
           p == Literal(item, Base + 1)
       IN listWrite("remove", Undef, Undef, Undef, item,
                    [shape |-> "none", delta |-> Undef, replace |-> Undef],
                    handleRemoveItem(currentValue, h.ident, p, Base + 5),
                    <<p>>, nullSafe)

\* onEdit(item, a1, a2, a3)
listEdit(item, a1, a2, a3, nullSafe) ==
    /\ ~threw
    /\ rendered = data
    /\ FocusHandles[mounted].kind = "list"
    /\ LET h == FocusHandles[mounted]
           currentValue == views[h.view]
           p == Literal(item, Base + 1)
           p1 == Literal(a1, Base + 1)
           p2 == Literal(a2, Base + 1)
           edit == useFormListHandleChange(currentValue, h.ident, p, p1, p2,
                                           a3, Base + 4)
       IN listWrite("edit", a1, a2, a3, item, edit, edit.array,
                    <<p, p1, p2>>, nullSafe)

FocusNext ==
    \/ \E c \in RootCalls, nullSafe \in RamdaReleases :
          rootChange(c[1], c[2], c[3], nullSafe)
    \/ \E c \in NestedCalls, nullSafe \in RamdaReleases :
          nestedChange(c[1], c[2], c[3], nullSafe)
    \/ Render

FocusSpec == FocusInit /\ [][FocusNext]_vars

ListNext ==
    \/ \E c \in NoOpCalls, nullSafe \in RamdaReleases :
          rootChange(c[1], c[2], c[3], nullSafe)
    \/ \E item \in ItemsOf(FocusHandles[mounted]), nullSafe \in RamdaReleases :
          listAdd(item, nullSafe)
    \/ \E item \in ItemsOf(FocusHandles[mounted]), nullSafe \in RamdaReleases :
          listRemove(item, nullSafe)
    \/ \E c \in EditCallsOf(FocusHandles[mounted]), nullSafe \in RamdaReleases :
          listEdit(c[1], c[2], c[3], c[4], nullSafe)
    \/ Render

ListSpec == ListInit /\ [][ListNext]_vars

-----------------------------------------------------------------------------
(* setter calls issued without a render in between *)

\* largest number of setter calls between two renders
MaxBatch == 2

\* the calls of the root setter issued in a batch
BatchCalls ==
    { <<Obj(0, s_foo :> Str(s_bar)), Undef, Undef>>,
      <<Obj(0, s_baz :> Str(s_lol)), Undef, Undef>>,
      <<Obj(0, s_foo :> Str(s_bar)), Bool(TRUE), Undef>>,
      <<Null, Bool(TRUE), Undef>>,
      <<Null, Undef, Undef>>,
      <<Str(s_nest_some), Str(s_bar), Undef>> }

\* every update is computed from the state of the last render, so that the
\* last one of a batch overwrites the others
RECURSIVE ProcessQueueFromSnapshot(_, _, _, _)
ProcessQueueFromSnapshot(state, q, mw, nullSafe) ==
    IF q = <<>> THEN [data |-> state, threw |-> FALSE]
    ELSE LET res == handleUpdate(state, q[Len(q)].delta, q[Len(q)].replace,
                                 mw, nullSafe, 0)
         IN [data |-> res.data, threw |-> res.threw]

\* React's processing of the update queue of the state hook at the next
\* render: setData(null) and the updaters setData((data) => ...) queued by
\* handleUpdate are applied in the order of the calls, each one to the
\* state the one before it returned; an updater that raises ends the render
RECURSIVE ProcessQueue(_, _, _, _)
ProcessQueue(state, q, mw, nullSafe) ==
    IF q = <<>> THEN [data |-> state, threw |-> FALSE]
    ELSE LET res == handleUpdate(state, Head(q).delta, Head(q).replace, mw,
                                 nullSafe, 0)
         IN IF res.threw THEN [data |-> state, threw |-> TRUE]
            ELSE ProcessQueue(res.data, Tail(q), mw, nullSafe)

\* handleChange of useForm: handleUpdate queues its update.  last keeps the
\* calls issued since the last render and the state they were issued on.
\* (This specification follows values only: the ids are erased.)
batchChange(a1, a2, a3) ==
    /\ ~threw
    /\ Len(queue) < MaxBatch
    /\ NumOf(data) + Len(queue) < MaxNum
    /\ LET call == Update(a1, a2, a3, 0)
       IN /\ queue' = Append(queue, [delta |-> call.delta,
                                     replace |-> call.replace])
          /\ last' = [op |-> "queued",
                      calls |-> (IF queue = <<>> THEN <<>> ELSE last.calls)
                                   \o << <<a1, a2, a3>> >>,
                      before |-> Plain(data),
                      nullSafe |-> TRUE]
    /\ UNCHANGED <<data, rendered, views, middleware, threw, source, mounted>>

\* the render that follows the batch
batchRender(nullSafe) ==
    /\ ~threw
    /\ queue # <<>>
    /\ LET res == ProcessQueue(data, queue, middleware, nullSafe)
       IN /\ data' = Plain(res.data)
          /\ threw' = res.threw
          /\ rendered' = data'
          /\ views' = RenderViews(data', 0)
          /\ queue' = <<>>
          /\ last' = [last EXCEPT !.op = "flushed", !.nullSafe = nullSafe]
    /\ UNCHANGED <<middleware, source, mounted>>

BatchNext ==
    \/ \E c \in BatchCalls : batchChange(c[1], c[2], c[3])
    \/ \E nullSafe \in BOOLEAN : batchRender(nullSafe)

BatchSpec == Init /\ [][BatchNext]_vars

-----------------------------------------------------------------------------
(* list handlers called without a render in between *)

\* the calls of the root setter issued next to the list handlers
ListBatchRootCalls ==
    { <<Obj(0, s_foo :> Str(s_bar)), Undef, Undef>>,
      <<Obj(0, s_baz :> Str(s_lol)), Undef, Undef>> }

\* the items passed to onAdd and onRemove and the calls
\* onEdit(item, a1, a2, a3) issued in a batch
ListBatchCalls ==
    [self |-> [add |-> {Str(s_foo), Num(1)},
               remove |-> {Str(s_foo)},
               edit |-> { <<Str(s_foo), Str(s_hello), Undef, Undef>> }],
     id |-> [add |-> {Todo(3, s_baz)},
             remove |-> {Todo(3, s_baz)},
             edit |-> { <<Todo(1, s_foo), Obj(0, s_name :> Str(s_bar)), Undef, Undef>> }]]

ListBatchCallsOf(h) ==
    IF h.ident = s_self THEN ListBatchCalls.self ELSE ListBatchCalls.id

\* onChange(key, updatedArray) of a list handler: the root's Update and
\* handleUpdate queue the update that writes array at the path.  c records
\* the handler called and its arguments.
listBatchWrite(c, array) ==
    LET key == Hooks[FocusHandles[mounted].view].key
        call == Update(Str(key), array, Undef, 0)
    IN /\ ~threw
       /\ Len(queue) < MaxBatch
       /\ queue' = Append(queue, [delta |-> call.delta,
                                  replace |-> call.replace])
       /\ last' = [op |-> "queued",
                   calls |-> (IF queue = <<>> THEN <<>> ELSE last.calls)
                                \o <<c>>,
                   before |-> Plain(data),
                   nullSafe |-> TRUE]
       /\ UNCHANGED <<data, rendered, views, middleware, threw, source, mounted>>

\* onAdd(item): the array is computed from the value the hook read at the
\* last render
listBatchAdd(item) ==
    /\ FocusHandles[mounted].kind = "list"
    /\ LET currentValue == views[FocusHandles[mounted].view]
       IN /\ Len(currentValue.e) < MaxLen
          /\ listBatchWrite(<<"add", item, Undef, Undef, Undef>>,
                            handleAddItem(currentValue, item, 0))

\* onRemove(item)
listBatchRemove(item) ==
    /\ FocusHandles[mounted].kind = "list"
    /\ LET h == FocusHandles[mounted]
           currentValue == views[h.view]
       IN listBatchWrite(<<"remove", item, Undef, Undef, Undef>>,
                         handleRemoveItem(currentValue, h.ident, item, 0))

\* onEdit(item, a1, a2, a3)
listBatchEdit(item, a1, a2, a3) ==
    /\ FocusHandles[mounted].kind = "list"
    /\ LET h == FocusHandles[mounted]
           currentValue == views[h.view]
           edit == useFormListHandleChange(currentValue, h.ident, item, a1, a2,
                                           a3, 0)
       IN listBatchWrite(<<"edit", item, a1, a2, a3>>, edit.array)

ListBatchNext ==
    \/ \E c \in ListBatchRootCalls : batchChange(c[1], c[2], c[3])
    \/ \E item \in ListBatchCallsOf(FocusHandles[mounted]).add :
          listBatchAdd(item)
    \/ \E item \in ListBatchCallsOf(FocusHandles[mounted]).remove :
          listBatchRemove(item)
    \/ \E c \in ListBatchCallsOf(FocusHandles[mounted]).edit :
          listBatchEdit(c[1], c[2], c[3], c[4])
    \/ \E nullSafe \in RamdaReleases : batchRender(nullSafe)

ListBatchSpec == ListInit /\ [][ListBatchNext]_vars

-----------------------------------------------------------------------------
(* properties *)

\* the state right after a call of the root setter: rendered is still the
\* tree the call was issued on
Called == last.op = "update"

\* n is the deep merge of the mapping d into the mapping c, stated key by
\* key on structural values
RECURSIVE DeepMerged(_, _, _)
DeepMerged(n, d, c) ==
    /\ n.t = "object"
    /\ DOMAIN n.f = DOMAIN d.f \cup DOMAIN c.f
    /\ \A k \in DOMAIN d.f :
          IF k \in DOMAIN c.f /\ d.f[k].t = "object" /\ c.f[k].t = "object"
          THEN DeepMerged(n.f[k], d.f[k], c.f[k])
          ELSE n.f[k] = d.f[k]
    /\ \A k \in DOMAIN c.f \ DOMAIN d.f : n.f[k] = c.f[k]

\* C1: a merge-mode update of a mapping delta on a non-null root yields the
\* transform of the deep merge of delta into the current tree: on every key
\* of delta the merge recurses when both sides hold a mapping and delta's
\* value wins otherwise (an array is replaced as a whole), and every key
\* present only in the current tree keeps its value (the same reference
\* under the identity transform).
C1_MergeIsDeepMergeLeft ==
    (Called /\ last.branch = "merge" /\ last.delta.t = "object"
       /\ rendered.t = "object")
    => /\ ~threw
       /\ DeepMerged(last.nextData, last.delta, Plain(rendered))
       /\ Plain(data) = Plain(MiddlewareFn(middleware, last.nextData))
       /\ middleware = "identity"
          => \A k \in DOMAIN rendered.f \ DOMAIN last.delta.f :
                data.f[k] = rendered.f[k]

\* a nested mapping was merged key by key and an array replaced as a whole
C1_Witness ==
    /\ Called /\ last.branch = "merge" /\ last.shape = "delta"
    /\ last.a2 = Undef
    /\ last.delta = Obj(0, s_nest :> Obj(0, s_tags :> Arr(0, <<Str(s_hello)>>)))
    /\ Plain(GetProp(rendered, s_nest)) =
          Obj(0, (s_some :> Str(s_billy)) @@ (s_tags :> Arr(0, <<Str(s_foo)>>)))
    /\ Plain(GetProp(data, s_nest)) =
          Obj(0, (s_some :> Str(s_billy)) @@ (s_tags :> Arr(0, <<Str(s_hello)>>)))
    /\ GetProp(data, s_foo) = Str(s_baz)

\* C2: a replace-mode update with a raw delta discards the current tree: a
\* null delta publishes null without running the transform, and any other
\* delta publishes transform(delta), so that a key of the old tree is in
\* the new one only if the delta (or the transform) carries it.
C2_ReplaceDiscardsCurrent ==
    (Called /\ last.shape = "delta" /\ Truthy(last.a2))
    => IF last.a1 = Null
       THEN data = Null /\ ~threw
       ELSE /\ threw = (MiddlewareFn(middleware, last.a1) = Thrown)
            /\ ~threw => /\ Plain(data) = Plain(MiddlewareFn(middleware, last.a1))
                         /\ middleware = "identity" => Plain(data) = last.a1
                         /\ data.t = "object" =>
                               DOMAIN data.f \subseteq
                                  DOMAIN last.a1.f \cup {s_baz, s_num}

\* a tree with keys the delta does not carry was replaced by the delta
C2_Witness ==
    /\ Called /\ last.shape = "delta" /\ last.a2 = Bool(TRUE)
    /\ last.a1 = Obj(0, s_foo :> Str(s_bar))
    /\ middleware = "identity"
    /\ s_nest \in DOMAIN rendered.f
    /\ Plain(data) = Obj(0, s_foo :> Str(s_bar))

\* C3 (as claimed): once the root is null, a merge-mode update does not
\* raise and leaves the root null.
C3_MergeOnNullIsNoOp ==
    (Called /\ rendered = Null /\ last.branch = "merge")
    => (~threw /\ data = Null)

\* the segments of the dotted path of a path+value call
Keys == Split(last.a1.s)

\* n is the minimal tree holding only the chain keys -> v
RECURSIVE IsSingleton(_, _, _)
IsSingleton(n, keys, v) ==
    /\ n.t = "object"
    /\ DOMAIN n.f = {Head(keys)}
    /\ IF Len(keys) = 1 THEN n.f[Head(keys)] = v
       ELSE IsSingleton(n.f[Head(keys)], Tail(keys), v)

\* every location of the mapping c that is not on or under the path keys
\* holds the same value in n
RECURSIVE OffPathKept(_, _, _)
OffPathKept(n, c, keys) ==
    c.t = "object"
    => /\ n.t = "object"
       /\ \A k \in DOMAIN c.f \ {Head(keys)} :
             k \in DOMAIN n.f /\ n.f[k] = c.f[k]
       /\ (Len(keys) > 1 /\ Head(keys) \in DOMAIN c.f)
          => /\ Head(keys) \in DOMAIN n.f
             /\ OffPathKept(n.f[Head(keys)], c.f[Head(keys)], Tail(keys))

\* every key of the mapping c that is not on or under the path keys is
\* still a key of n
RECURSIVE OffPathPresent(_, _, _)
OffPathPresent(n, c, keys) ==
    c.t = "object"
    => /\ n.t = "object"
       /\ \A k \in DOMAIN c.f \ {Head(keys)} : k \in DOMAIN n.f
       /\ (Len(keys) > 1 /\ Head(keys) \in DOMAIN c.f)
          => /\ Head(keys) \in DOMAIN n.f
             /\ OffPathPresent(n.f[Head(keys)], c.f[Head(keys)], Tail(keys))

PathValueMerge ==
    /\ Called /\ last.shape = "pathvalue" /\ ~Truthy(last.a3)
    /\ rendered.t = "object"

\* C4 (as claimed): after update(path, v) without replace flag on a
\* non-null tree, the tree the update computes (and hands to the transform)
\* reads v at the path, and every location off the path keeps its value.
C4_PathValueReadsValue ==
    PathValueMerge
    => /\ ~threw
       /\ Path(Keys, last.nextData) = last.a2
       /\ OffPathKept(last.nextData, Plain(rendered), Keys)
       /\ Plain(data) = Plain(MiddlewareFn(middleware, last.nextData))

\* C4 (amended): after update(path, v) without replace flag on a non-null
\* tree, the tree the update computes (and hands to the transform) reads,
\* at the path, the deep merge of v into the previous value when both are
\* mappings and v itself otherwise (missing intermediate mappings are
\* created); every location off the path keeps its value.
C4_PathValueMerges ==
    PathValueMerge
    => /\ ~threw
       /\ LET prev == Path(Keys, Plain(rendered))
              read == Path(Keys, last.nextData)
          IN IF last.a2.t = "object" /\ prev.t = "object"
             THEN DeepMerged(read, last.a2, prev)
             ELSE read = last.a2
       /\ OffPathKept(last.nextData, Plain(rendered), Keys)
       /\ Plain(data) = Plain(MiddlewareFn(middleware, last.nextData))

\* update('nest.some', 'bar') on a tree without nest created the mapping
C4_Witness ==
    /\ PathValueMerge
    /\ last.a1 = Str(s_nest_some) /\ last.a2 = Str(s_bar)
    /\ s_nest \notin DOMAIN rendered.f
    /\ s_foo \in DOMAIN rendered.f
    /\ Plain(GetProp(data, s_nest)) = Obj(0, s_some :> Str(s_bar))
    /\ GetProp(data, s_foo) = GetProp(rendered, s_foo)

PathValueCall ==
    /\ Called /\ last.shape = "pathvalue"
    /\ rendered.t = "object"

\* C5 (as claimed): after update(path, value, replace), for either value of
\* the flag, every key of the previous tree off the path is still present.
C5_PathValueNeverReplaces ==
    PathValueCall
    => /\ ~threw
       /\ OffPathPresent(Plain(data), Plain(rendered), Keys)

\* C5 (amended): the singleton delta of a (path, value) pair is merged when
\* the replace flag is absent or false: every key of the previous tree off
\* the path is then still present in the tree computed before the
\* transform.  With replace = true the singleton replaces the whole tree:
\* the transform of the singleton is published and the keys of the
\* previous tree off the path are dropped.
C5_PathValueFollowsFlag ==
    PathValueCall
    => /\ ~threw
       /\ IsSingleton(last.delta, Keys, last.a2)
       /\ Plain(data) = Plain(MiddlewareFn(middleware, last.nextData))
       /\ IF Truthy(last.a3)
          THEN /\ last.nextData = last.delta
               /\ middleware = "identity"
                  => \A k \in DOMAIN rendered.f \ {Head(Keys)} :
                        k \notin DOMAIN data.f
          ELSE OffPathPresent(last.nextData, Plain(rendered), Keys)

\* update('foo', 'bar', true) dropped the key nest of the previous tree
C5_Witness ==
    /\ PathValueCall
    /\ last.a1 = Str(s_foo) /\ last.a3 = Bool(TRUE)
    /\ middleware = "identity"
    /\ s_nest \in DOMAIN rendered.f
    /\ Plain(data) = Obj(0, s_foo :> Str(s_bar))

\* the first argument carries the native-event marker
IsEvent(v) ==
    /\ v.t = "object"
    /\ s_nativeEvent \in DOMAIN v.f
    /\ v.f[s_nativeEvent] = EventInstance

\* C6: a call whose first argument is a native change notification is
\* applied as a merge-mode path+value update whatever the other arguments
\* are: the path is the target's name split on dots, the value the target's
\* checked flag for a checkbox and the target's value otherwise.
C6_EventIsMergePathValue ==
    (Called /\ IsEvent(last.a1))
    => LET target == last.a1.f[s_target]
           value == IF target.f[s_type] = Str(s_checkbox)
                    THEN target.f[s_checked]
                    ELSE target.f[s_value]
       IN /\ last.shape = "event"
          /\ last.branch = "merge"
          /\ ~Truthy(last.replace)
          /\ IsSingleton(last.delta, Split(target.f[s_name].s), value)
          /\ rendered.t = "object"
             => /\ ~threw
                /\ DeepMerged(last.nextData, last.delta, Plain(rendered))
                /\ Plain(data) = Plain(MiddlewareFn(middleware, last.nextData))

\* a text event passed with two truthy extra arguments was merged
C6_Witness ==
    /\ Called /\ last.a1 = TextEvent
    /\ last.a2 = Bool(TRUE) /\ last.a3 = Bool(TRUE)
    /\ s_nest \in DOMAIN rendered.f
    /\ GetProp(data, s_nest) = GetProp(rendered, s_nest)
    /\ GetProp(rendered, s_foo) = Str(s_baz)
    /\ GetProp(data, s_foo) = Str(s_bar)

\* C7 (as claimed): a first argument that is a string and no native change
\* notification makes a path+value call for every second argument, an
\* undefined one included; any other first argument makes a raw delta call.
C7_StringIsAlwaysPath ==
    (Called /\ ~IsEvent(last.a1))
    => IF last.a1.t = "string"
       THEN /\ last.shape = "pathvalue"
            /\ IsSingleton(last.delta, Keys, last.a2)
            /\ last.replace = last.a3
       ELSE /\ last.shape = "delta"
            /\ last.delta = last.a1
            /\ last.replace = last.a2

\* C7 (amended): a first argument that is a string and no native change
\* notification makes a path+value call (path = first, value = second,
\* flag = third) when the second argument is not undefined; with an
\* undefined second argument, as with a first argument that is not a
\* string, the call is a raw delta call handleUpdate(first, second), which
\* for a string merges the string's characters into the tree under their
\* indices.
C7_DispatchOrder ==
    (Called /\ ~IsEvent(last.a1))
    => IF last.a1.t = "string" /\ last.a2 # Undef
       THEN /\ last.shape = "pathvalue"
            /\ IsSingleton(last.delta, Keys, last.a2)
            /\ last.replace = last.a3
       ELSE /\ last.shape = "delta"
            /\ last.delta = last.a1
            /\ last.replace = last.a2
            /\ (last.a1.t = "string" /\ rendered.t = "object")
               => /\ ~threw
                  /\ \A i \in 1..Len(last.a1.s) :
                        GetProp(last.nextData, IndexStr(i - 1))
                           = Str(<<last.a1.s[i]>>)
                  /\ s_foo \in DOMAIN last.nextData.f
                        <=> s_foo \in DOMAIN rendered.f

\* update('foo') merged the characters of 'foo' into the tree
C7_Witness ==
    /\ Called /\ last.a1 = Str(s_foo) /\ last.a2 = Undef
    /\ rendered = Obj(rendered.id, <<>>)
    /\ Plain(data) = Obj(0, (<<"0">> :> Str(<<"f">>))
                            @@ (<<"1">> :> Str(<<"o">>))
                            @@ (<<"2">> :> Str(<<"o">>)))

\* C8 (as claimed): update with a null or undefined first argument and no
\* replace flag leaves the root value as it was, for every transform and
\* every current state.
C8_NilFirstArgIsNoOp ==
    (Called /\ IsNil(last.a1) /\ ~Truthy(last.a2))
    => (~threw /\ Plain(data) = Plain(rendered))

CounterFields(d) ==
    /\ d.t = "object"
    /\ GetProp(d, s_baz) = Str(s_qux)

Child(v, k) == IF v.t = "object" /\ k \in DOMAIN v.f THEN v.f[k] ELSE Undef

\* the value stored in the rendered tree at the path of hook i
StoredAt(i) ==
    CASE i = 1 -> Child(rendered, s_nest)
      [] i = 2 -> Child(Child(rendered, s_nest), s_some)
      [] i = 3 -> Child(Child(rendered, s_nest), s_tags)
      [] i = 4 -> Child(rendered, s_todos)

\* C10: in every state, null root included, the value of a focused handle
\* is the very value stored at its path in the rendered tree (the same
\* reference) when that value is neither null nor undefined, and otherwise
\* a new empty mapping (nested focus) or empty array (list focus); the
\* root does not gain the key.
C10_FocusedValueIsStored ==
    \A i \in 1..Len(Hooks) :
        /\ views[i] # Thrown
        /\ IF ~IsNil(StoredAt(i))
           THEN views[i] = StoredAt(i)
           ELSE /\ Plain(views[i]) = IF Hooks[i].kind = "nested"
                                     THEN Obj(0, <<>>) ELSE Arr(0, <<>>)
                /\ views[i].id \notin IdsOf(rendered)
                /\ IsNil(Path(Split(Hooks[i].key), rendered))

\* nest is read by reference, nest.tags too, and todos is absent
C10_Witness ==
    /\ rendered.t = "object" /\ s_nest \in DOMAIN rendered.f
    /\ views[1] = rendered.f[s_nest]
    /\ views[1].t = "object" /\ s_some \in DOMAIN views[1].f
    /\ views[3].t = "array" /\ Len(views[3].e) = 1
    /\ views[3].id \in IdsOf(rendered)
    /\ views[4].t = "array" /\ views[4].e = <<>>
    /\ s_todos \notin DOMAIN rendered.f

\* the root was cleared and every focused handle reads its default
C10_WitnessNull ==
    /\ rendered = Null
    /\ \A i \in 1..Len(Hooks) : views[i].id # 0

-----------------------------------------------------------------------------
(* properties of the focused hooks *)

\* the state right after a call of the setter of the mounted useNestedForm
FocusCalled == last.op = "focus"

\* the state the root would publish from the rendered tree for the call
\* onChange(a1, a2, a3) of its own setter
RootWouldPublish(a1, a2, a3) ==
    LET call == Update(a1, a2, a3, 0)
    IN handleUpdate(rendered, call.delta, call.replace, middleware, TRUE, 0).data

\* C11 (as claimed): an update focused.update(delta, replace) through a
\* handle focused on path has the same effect on the root as
\* root.update(path, delta, replace), for every value of replace.
C11_FocusedForwardsMode ==
    (FocusCalled /\ last.sub.shape = "delta"
       /\ Len(FocusHandles[mounted].chain) = 1)
    => /\ ~threw
       /\ Plain(data) =
             Plain(RootWouldPublish(Str(FocusHandles[mounted].chain[1]),
                                    last.a1, last.a2))

\* the state the root would publish from the rendered tree for the call
\* update(a1, a2, a3) of the handle reached through chain
FocusWouldPublish(chain, a1, a2, a3) ==
    LET call == FocusedChange(chain, a1, a2, a3, 0)
    IN handleUpdate(rendered, call.delta, call.replace, middleware, TRUE, 0).data

\* C12 (as claimed): the handle focused on 'some' of the handle focused on
\* 'nest' and the handle focused on 'nest.some' read the same value in every
\* state, and the same update, of any call shape, through either of them
\* produces the same root tree.
C12_FocusComposes ==
    /\ Plain(FocusedValue(<<s_nest, s_some>>, rendered, 0))
          = Plain(FocusedValue(<<s_nest_some>>, rendered, 0))
    /\ (FocusCalled /\ FocusHandles[mounted].chain = <<s_nest, s_some>>)
       => Plain(data) = Plain(FocusWouldPublish(<<s_nest_some>>,
                                                last.a1, last.a2, last.a3))
    /\ (FocusCalled /\ FocusHandles[mounted].chain = <<s_nest_some>>)
       => Plain(data) = Plain(FocusWouldPublish(<<s_nest, s_some>>,
                                                last.a1, last.a2, last.a3))

\* x is v or one of the objects and arrays inside v
RECURSIVE Holds(_, _)
Holds(v, x) ==
    \/ v = x
    \/ v.t = "object" /\ \E k \in DOMAIN v.f : Holds(v.f[k], x)
    \/ v.t = "array" /\ \E i \in 1..Len(v.e) : Holds(v.e[i], x)

\* every object or array of n that was allocated for one of the values of
\* old is found in old with the content it has in n: none was written to
RECURSIVE Untouched(_, _)
Untouched(n, old) ==
    /\ (n.t \in {"object", "array"}
          /\ \E i \in 1..Len(old) : n.id \in IdsOf(old[i]))
       => \E i \in 1..Len(old) : Holds(old[i], n)
    /\ n.t = "object" => \A k \in DOMAIN n.f : Untouched(n.f[k], old)
    /\ n.t = "array" => \A i \in 1..Len(n.e) : Untouched(n.e[i], old)

\* C13: under the identity transform no update, through the root or through
\* a focused handle, writes to an object of the previous tree, of the values
\* the hooks read from it, or of the arguments the caller passed: every
\* object of the new tree allocated before the call has the content it had.
\* In particular the object passed to update(source, true) keeps its content
\* through every later update.
C13_NoMutation ==
    /\ last.op # "none"
       => Untouched(data, <<rendered>> \o views \o last.passed)
    /\ Untouched(data, <<source>>)
    /\ (last.op # "none" /\ rendered = source /\ data # rendered)
       => data.id \notin IdsOf(source)

\* after setData(originalObject, true), setData('nest.some', 'hello') built
\* a new root and a new nest; originalObject still reads 'billy' and its
\* tags array is shared, not copied
C13_Witness ==
    /\ last.op = "update" /\ last.a1 = Str(s_nest_some)
    /\ Plain(source) = OriginalObject
    /\ rendered = source
    /\ GetProp(GetProp(data, s_nest), s_some) = Str(s_hello)
    /\ GetProp(GetProp(source, s_nest), s_some) = Str(s_billy)
    /\ GetProp(data, s_nest).id \notin IdsOf(source)
    /\ GetProp(GetProp(data, s_nest), s_tags) = GetProp(GetProp(source, s_nest), s_tags)

\* C21 (as claimed): update(null) or update(undefined) on a focused handle,
\* without the replace flag, is a silent no-op: no error is raised, the root
\* tree is the same after the call as before, and so is the subtree at the
\* focused path.
C21_FocusedNilIsNoOp ==
    (FocusCalled /\ IsNil(last.a1) /\ ~Truthy(last.a2))
    => /\ ~threw
       /\ Plain(data) = Plain(rendered)
       /\ Plain(FocusedValue(FocusHandles[mounted].chain, data, Base))
             = Plain(FocusedValue(FocusHandles[mounted].chain, rendered, Base))

-----------------------------------------------------------------------------
(* properties of useFormList *)

\* the mounted list hook and the path it focuses on
ListHook == Hooks[FocusHandles[mounted].view]

\* the elements of the array stored at the path of the mounted list hook in
\* the tree d; none when nothing is stored there
ElementsAt(d) ==
    LET v == Path(Split(ListHook.key), d)
    IN IF v.t = "array" THEN v.e ELSE <<>>

PlainSeq(elems) == [i \in 1..Len(elems) |-> Plain(elems[i])]

\* C14: after onAdd(item) on a root that is a mapping, the array stored at
\* the path of the list (top-level or dotted, present before or not) is the
\* previous array followed by item: one element longer, the previous
\* elements the same references in the same order, whether or not an
\* element with the identity key of item was there.
C14_AddAppends ==
    last.op = "add"
    => /\ ~threw
       /\ Path(Split(ListHook.key), data).t = "array"
       /\ Len(ElementsAt(data)) = Len(ElementsAt(rendered)) + 1
       /\ \A i \in 1..Len(ElementsAt(rendered)) :
             ElementsAt(data)[i] = ElementsAt(rendered)[i]
       /\ Plain(ElementsAt(data)[Len(ElementsAt(data))]) = last.item
       /\ last.array = Arr(0, PlainSeq(ElementsAt(data)))

\* 'foo' was added to nest.tags although 'foo' was its first element
C14_Witness ==
    /\ last.op = "add" /\ last.item = Str(s_foo)
    /\ ListHook.key = s_nest_tags
    /\ ElementsAt(rendered) = <<Str(s_foo), Num(1)>>
    /\ ElementsAt(data) = <<Str(s_foo), Num(1), Str(s_foo)>>

\* todos was absent from the tree and holds the added item
C14_WitnessAbsent ==
    /\ last.op = "add" /\ last.item = Todo(1, s_foo)
    /\ ListHook.key = s_todos
    /\ rendered = Obj(rendered.id, <<>>)
    /\ PlainSeq(ElementsAt(data)) = <<Todo(1, s_foo)>>

\* identifier(x) as a structural value
KeyOf(x) == Plain(Identifier(FocusHandles[mounted].ident, x))

\* the position of the first element of elems with the identity key of
\* item, 0 when there is none
FirstMatch(elems, item) ==
    IF \E i \in 1..Len(elems) : KeyOf(elems[i]) = KeyOf(item)
    THEN CHOOSE i \in 1..Len(elems) :
            /\ KeyOf(elems[i]) = KeyOf(item)
            /\ \A j \in 1..(i - 1) : KeyOf(elems[j]) # KeyOf(item)
    ELSE 0

\* C15: after onRemove(item) on a root that is a mapping, the array at the
\* path is the previous one without the first element whose identity key
\* equals identifier(item): every other element, a later one with the same
\* key included, is the same reference at its place in the order.  When no
\* element matches, the array has the same elements in the same order, and
\* no error is raised.
C15_RemoveFirstMatch ==
    last.op = "remove"
    => LET prev == ElementsAt(rendered)
           new == ElementsAt(data)
           index == FirstMatch(prev, last.item)
       IN /\ ~threw
          /\ IF index = 0
             THEN new = prev
             ELSE /\ Len(new) = Len(prev) - 1
                  /\ \A i \in 1..(index - 1) : new[i] = prev[i]
                  /\ \A i \in index..Len(new) : new[i] = prev[i + 1]

\* of two todos with id 1 the first one was removed, the later one stays
C15_Witness ==
    /\ last.op = "remove" /\ last.item = Todo(1, s_foo)
    /\ PlainSeq(ElementsAt(rendered)) = <<Todo(1, s_foo), Todo(2, s_bar), Todo(1, s_foo)>>
    /\ PlainSeq(ElementsAt(data)) = <<Todo(2, s_bar), Todo(1, s_foo)>>

\* no element has the identity key: the array is as it was
C15_WitnessNoMatch ==
    /\ last.op = "remove" /\ last.item = Todo(3, s_baz)
    /\ PlainSeq(ElementsAt(rendered)) = <<Todo(1, s_foo), Todo(2, s_bar)>>
    /\ ElementsAt(data) = ElementsAt(rendered)

\* C16: after onEdit(item, delta, replace) with a mapping delta on a list
\* of mappings (root a mapping), only the first element whose identity key
\* equals identifier(item) changed: without replace it is the deep merge of
\* delta into it (the fields absent from delta kept), with replace = true it
\* is exactly delta (the other fields dropped); every other element is the
\* same reference at the same place.  When no element matches, the array
\* has the same elements in the same order.
C16_EditMergesOrReplaces ==
    (last.op = "edit" /\ FocusHandles[mounted].ident = s_id
       /\ last.a1.t = "object")
    => LET prev == ElementsAt(rendered)
           new == ElementsAt(data)
           index == FirstMatch(prev, last.item)
       IN /\ ~threw
          /\ Len(new) = Len(prev)
          /\ \A i \in 1..Len(prev) : i # index => new[i] = prev[i]
          /\ index # 0
             => IF Truthy(last.a2)
                THEN Plain(new[index]) = last.a1
                ELSE DeepMerged(Plain(new[index]), last.a1, Plain(prev[index]))

\* { name: 'bar' } merged into the first todo: its id is kept
C16_Witness ==
    /\ last.op = "edit" /\ last.item = Todo(1, s_foo)
    /\ last.a1 = Obj(0, s_name :> Str(s_bar)) /\ last.a2 = Undef
    /\ PlainSeq(ElementsAt(rendered)) = <<Todo(1, s_foo), Todo(2, s_bar)>>
    /\ PlainSeq(ElementsAt(data)) = <<Todo(1, s_bar), Todo(2, s_bar)>>
    /\ ElementsAt(data)[2] = ElementsAt(rendered)[2]

\* { id: 3 } replaced the first todo: its name is dropped
C16_WitnessReplace ==
    /\ last.op = "edit" /\ last.item = Todo(1, s_foo)
    /\ last.a1 = Obj(0, s_id :> Num(3)) /\ last.a2 = Bool(TRUE)
    /\ PlainSeq(ElementsAt(rendered)) = <<Todo(1, s_foo), Todo(2, s_bar)>>
    /\ PlainSeq(ElementsAt(data)) = <<Obj(0, s_id :> Num(3)), Todo(2, s_bar)>>

\* C17 (as claimed): when the element matched by onEdit(item, delta,
\* replace) is a scalar (string, number or boolean), it becomes exactly
\* delta, for every value of the replace flag.
C17_ScalarEditSetsDelta ==
    last.op = "edit"
    => LET prev == ElementsAt(rendered)
           new == ElementsAt(data)
           index == FirstMatch(prev, last.item)
       IN (index # 0 /\ prev[index].t \in {"string", "number", "boolean"})
          => /\ ~threw
             /\ Len(new) = Len(prev)
             /\ new[index] = last.a1

\* the last call is one the documentation calls a no-op: a root update
\* with a nil first argument and no replace flag, or a list remove or edit
\* whose identity key matches no element
DocumentedNoOp ==
    \/ last.op = "update" /\ IsNil(last.a1) /\ ~Truthy(last.a2)
    \/ /\ last.op \in {"remove", "edit"}
       /\ FirstMatch(ElementsAt(rendered), last.item) = 0

\* C18 (as claimed): a documented no-op leaves the root value referentially
\* identical: the state after the call is the object it was before.
C18_NoOpKeepsReference ==
    DocumentedNoOp => (~threw /\ data = rendered)

\* C19 (as claimed): a handle focused on the empty path '' reads the whole
\* tree of its ancestor, and a handle focused on a single-segment path
\* reads the value of that direct key.
C19_EmptyPathIsWholeTree ==
    /\ Plain(FocusedValue(<<s_empty>>, rendered, Base)) = Plain(rendered)
    /\ ~IsNil(Child(rendered, s_nest))
       => FocusedValue(<<s_nest>>, rendered, Base) = Child(rendered, s_nest)

-----------------------------------------------------------------------------
(* properties of batched updates *)

\* the state reached from state by issuing the calls one at a time, each on
\* the state the one before it published and read back
RECURSIVE OneAtATime(_, _, _, _)
OneAtATime(state, calls, mw, nullSafe) ==
    IF calls = <<>> THEN [data |-> state, threw |-> FALSE]
    ELSE LET call == Update(Head(calls)[1], Head(calls)[2], Head(calls)[3], 0)
             res == handleUpdate(state, call.delta, call.replace, mw,
                                 nullSafe, 0)
         IN IF res.threw THEN [data |-> state, threw |-> TRUE]
            ELSE OneAtATime(Plain(res.data), Tail(calls), mw, nullSafe)

\* a merge-mode call with a mapping delta that carries no num
PlainMerge(c) ==
    /\ c[1].t = "object" /\ ~Truthy(c[2])
    /\ s_num \notin DOMAIN c[1].f

\* C20: the updates issued on the root setter between two renders are all
\* applied at the next render, in the order of the calls, each to the
\* result of the one before: the published value is the one reached by
\* issuing the same calls one at a time with a read in between.  None is
\* lost: every top-level key of a merged delta is in the published tree
\* unless a later call of the batch replaced or cleared it, and under the
\* counting transform a batch of k merges adds k to num.
C20_BatchAppliesAllInOrder ==
    last.op = "flushed"
    => LET one == OneAtATime(last.before, last.calls, middleware, last.nullSafe)
           k == Len(last.calls)
       IN /\ threw = one.threw
          /\ Plain(data) = Plain(one.data)
          /\ (\A i \in 1..k : PlainMerge(last.calls[i]))
                /\ last.before.t = "object"
             => /\ ~threw
                /\ \A i \in 1..k : DOMAIN last.calls[i][1].f \subseteq DOMAIN data.f
                /\ (middleware = "counter"
                      /\ GetProp(last.before, s_num).t = "number")
                   => GetProp(data, s_num)
                         = Num(GetProp(last.before, s_num).n + k)

\* the test: { foo: 'bar' } and { baz: 'lol' } issued in one act() on
\* { num: 1 } under the counting transform give num = 3, with foo kept
C20_Witness ==
    /\ last.op = "flushed" /\ middleware = "counter"
    /\ last.calls = << <<Obj(0, s_foo :> Str(s_bar)), Undef, Undef>>,
                       <<Obj(0, s_baz :> Str(s_lol)), Undef, Undef>> >>
    /\ GetProp(last.before, s_num) = Num(1)
    /\ GetProp(data, s_num) = Num(3)
    /\ GetProp(data, s_foo) = Str(s_bar)
    /\ GetProp(data, s_baz) = Str(s_qux)

-----------------------------------------------------------------------------
(* properties of batched list operations *)

\* a call of a list handler, <<op, item, a1, a2, a3>>, as opposed to a call
\* <<a1, a2, a3>> of the root setter
IsListCall(c) == Len(c) = 5

\* the elements the list operation c gives on the elements prev: the item
\* appended, the first element with its identity key left out, or that
\* element set to the delta (a string item) or given the fields of the delta
ElementsAfter(prev, c) ==
    LET index == FirstMatch(prev, c[2])
    IN IF c[1] = "add" THEN Append(prev, c[2])
       ELSE IF index = 0 THEN prev
       ELSE IF c[1] = "remove"
       THEN SubSeq(prev, 1, index - 1) \o SubSeq(prev, index + 1, Len(prev))
       ELSE IF c[2].t = "string" THEN [prev EXCEPT ![index] = c[3]]
       ELSE [prev EXCEPT ![index] =
               Obj(0, [k \in DOMAIN c[3].f \cup DOMAIN prev[index].f |->
                         IF k \in DOMAIN c[3].f THEN c[3].f[k]
                         ELSE prev[index].f[k]])]

\* the positions of the list calls in the batch calls
ListCallsIn(calls) == {i \in 1..Len(calls) : IsListCall(calls[i])}

\* C22: the list operations issued between two renders each compute their
\* array from the value read at the last render and write it whole at the
\* path of the list: after the next render the array is the one the last
\* list operation of the batch gives on the array of the last render, and
\* the effect of every earlier list operation of the batch is gone.  The
\* root delta updates issued in the same batch are all kept: every key of
\* each of them is in the tree with its value.  No error is raised.
C22_ListOpsReadSnapshot ==
    (last.op = "flushed" /\ FocusHandles[mounted].kind = "list")
    => LET prev == PlainSeq(ElementsAt(last.before))
           new == PlainSeq(ElementsAt(data))
           L == ListCallsIn(last.calls)
       IN /\ ~threw
          /\ IF L = {} THEN new = prev
             ELSE new = ElementsAfter(prev, last.calls[SetMax(L)])
          /\ \A i \in (1..Len(last.calls)) \ L :
                \A k \in DOMAIN last.calls[i][1].f :
                   Plain(GetProp(data, k)) = last.calls[i][1].f[k]

\* onAdd('foo') and then onAdd(1) on the tags ['foo', 1] of one render: the
\* array holds the second item only, the added 'foo' is lost
C22_Witness ==
    /\ last.op = "flushed" /\ mounted # 0 /\ ListHook.key = s_nest_tags
    /\ last.calls = << <<"add", Str(s_foo), Undef, Undef, Undef>>,
                       <<"add", Num(1), Undef, Undef, Undef>> >>
    /\ ElementsAt(last.before) = <<Str(s_foo), Num(1)>>
    /\ ElementsAt(data) = <<Str(s_foo), Num(1), Num(1)>>

\* onAdd of a todo and then an onRemove that matches nothing in the array of
\* the last render: the array is written back as it was, the added todo is
\* lost
C22_WitnessWrittenBack ==
    /\ last.op = "flushed" /\ mounted # 0 /\ ListHook.key = s_todos
    /\ last.calls = << <<"add", Todo(3, s_baz), Undef, Undef, Undef>>,
                       <<"remove", Todo(3, s_baz), Undef, Undef, Undef>> >>
    /\ ElementsAt(last.before) = <<Todo(1, s_foo), Todo(2, s_bar)>>
    /\ ElementsAt(data) = ElementsAt(last.before)

\* two root delta updates issued the same way are both in the tree
C22_WitnessRootKept ==
    /\ last.op = "flushed" /\ mounted # 0
    /\ last.calls = << <<Obj(0, s_foo :> Str(s_bar)), Undef, Undef>>,
                       <<Obj(0, s_baz :> Str(s_lol)), Undef, Undef>> >>
    /\ GetProp(last.before, s_foo) = Undef
    /\ GetProp(data, s_foo) = Str(s_bar)
    /\ GetProp(data, s_baz) = Str(s_lol)

====
